---- MODULE Spec2Model ----
(***************************************************************************)
(* Model of the fhevoting front-end: the VotingContract wallet/contract    *)
(* client (src/lib/contract.ts) and the FHEVMClient encryption adapter     *)
(* (src/lib/fhevm.ts).  Both are module-level singletons; every async      *)
(* method is an invocation that runs synchronously up to its next await    *)
(* and is resumed by the outcome of the awaited remote call.               *)
(***************************************************************************)
EXTENDS Integers, Sequences, FiniteSets, TLC

(***************************************************************************)
(* Bounds of the model.                                                    *)
(***************************************************************************)
MaxProposalId == 0     \* proposal ids passed to castVote: 0..MaxProposalId
MaxOptionIndex == 0    \* option indexes passed to castVote
MaxSeed == 1           \* outcomes of ethers.randomBytes that are enumerated
MaxValue == 1          \* values passed to encrypt32 / encryptVote directly
MaxSimValue == 3       \* simulateEncryption is applied to -MaxSimValue..MaxSimValue
                       \* and to the same values shifted by 256
MaxBytesLen == 2       \* longest byte sequence handed to the codec
MaxHexLen == 4         \* longest string handed to fromHexString
MaxProposals == 2      \* largest proposalCount() the contract reports
MaxVoters == 2         \* longest address list passed to authorizeVoters
MaxListed == 1         \* most proposals passed to the dashboard
MaxTime == 2           \* latest instant of a proposal window or a clock read

(***************************************************************************)
(* Program constants.                                                      *)
(***************************************************************************)
SEPOLIA_CHAIN_ID == 11155111
ERR_CHAIN_NOT_ADDED == 4902
BLOCK_LEN == 32
RECEIPT_SUCCESS == 1
MAX_OPTIONS == 10
MIN_OPTIONS == 2

\* slots of async invocations: two UI-triggered invocations may overlap
Calls == {1, 2}
\* castVote takes any number: the ids 0..MaxProposalId and a negative one
ProposalIds == -1..MaxProposalId
OptionIndexes == -1..MaxOptionIndex
Seeds == 0..MaxSeed
Values == -1..MaxValue

\* values handed to simulateEncryption: around zero, and 256 further on
SimValues == (-MaxSimValue..MaxSimValue)
             \cup {v + 256 : v \in -MaxSimValue..MaxSimValue}

\* byte values and characters the codec inputs are built from
ByteSamples == {0, 10, 171, 255}
HexChars == {"0", "x", "B"}
BytesInputs == UNION {[1..n -> ByteSamples] : n \in 0..MaxBytesLen}
HexInputs == UNION {[1..n -> HexChars] : n \in 0..MaxHexLen}

\* address lists passed to authorizeVoters
VoterAddresses == {"0xA11ce", "0xB0b"}
VoterLists == UNION {[1..n -> VoterAddresses] : n \in 0..MaxVoters}

\* chain ids a provider may report: Sepolia and one other network (mainnet)
ChainIds == {SEPOLIA_CHAIN_ID, 1}
\* error codes wallet_switchEthereumChain may reject with
SwitchErrorCodes == {ERR_CHAIN_NOT_ADDED, 4001}

NULL == [tag |-> "null"]
NoKey == "null"
GatewayKey == "gateway-public-key"

VARIABLES
    contract,        \* VotingContract.contract  (NULL or the bound contract)
    provider,        \* VotingContract.provider
    signer,          \* VotingContract.signer
    isFHEVMEnabled,  \* VotingContract.isFHEVMEnabled
    instance,        \* FHEVMClient.instance (NULL or a backend handle)
    fhevmProvider,   \* FHEVMClient.provider
    isReady,         \* FHEVMClient.isReady
    publicKey,       \* FHEVMClient.publicKey
    lastInit,        \* history: outcome of the most recently completed init()
    calls,           \* the async invocations in flight, by slot
    encResult,       \* record of the latest direct call of an adapter method
    connectLog,      \* history: "none", "failed" (connect() has thrown and
                     \* none has returned true yet) or "ok"
    dialog,          \* CreateProposalDialog: its state and its last submit
    dashboard        \* VotingDashboard: its props, its state, its timer

vcVars == <<contract, provider, signer, isFHEVMEnabled>>
fheVars == <<instance, fhevmProvider, isReady, publicKey>>
vars == <<contract, provider, signer, isFHEVMEnabled, instance, fhevmProvider,
          isReady, publicKey, lastInit, calls, encResult, connectLog,
          dialog, dashboard>>
uiVars == <<dialog, dashboard>>

(***************************************************************************)
(* Byte/hex codec.                                                         *)
(***************************************************************************)
HexDigits == <<"0","1","2","3","4","5","6","7","8","9","a","b","c","d","e","f">>

\* byte.toString(16).padStart(2, '0')
ByteToHexUnpadded(b) ==
    IF b < 16 THEN <<HexDigits[b + 1]>>
    ELSE <<HexDigits[(b \div 16) + 1], HexDigits[(b % 16) + 1]>>
ByteToHex(b) == <<HexDigits[(b \div 16) + 1], HexDigits[(b % 16) + 1]>>

RECURSIVE JoinHex(_)
JoinHex(bytes) ==
    IF bytes = <<>> THEN <<>>
    ELSE ByteToHex(Head(bytes)) \o JoinHex(Tail(bytes))

\* FHEVMClient.toHexString: '0x' + two lowercase hex digits per byte
ToHexString(bytes) == <<"0", "x">> \o JoinHex(bytes)

\* FHEVMClient.createExternalInput
CreateExternalInput(encryptedData) == ToHexString(encryptedData)

\* storing a number into a Uint8Array element: the value modulo 2^8
ToUint8Unwrapped(n) == n
ToUint8(n) == n % 256

HexDigitsUpper == <<"0","1","2","3","4","5","6","7","8","9","A","B","C","D","E","F">>

\* value of one character as a base-16 digit, -1 when it is not a digit
DigitValue(ch) ==
    IF \E k \in 1..16 : HexDigits[k] = ch
    THEN (CHOOSE k \in 1..16 : HexDigits[k] = ch) - 1
    ELSE IF \E k \in 1..16 : HexDigitsUpper[k] = ch
         THEN (CHOOSE k \in 1..16 : HexDigitsUpper[k] = ch) - 1
         ELSE -1

\* parseInt(s, 16) of the one or two characters substr(i, 2) yields: an
\* optional 0x prefix is skipped, then the longest run of digits is read;
\* no digit at all gives NaN
ParseInt16(s) ==
    IF s = <<>> \/ s = <<"0", "x">> \/ s = <<"0", "X">> \/ DigitValue(s[1]) < 0
    THEN [nan |-> TRUE, n |-> 0]
    ELSE IF Len(s) >= 2 /\ DigitValue(s[2]) >= 0
         THEN [nan |-> FALSE, n |-> 16 * DigitValue(s[1]) + DigitValue(s[2])]
         ELSE [nan |-> FALSE, n |-> DigitValue(s[1])]

\* bytes[i / 2] = parseInt(...): NaN is stored as 0
StoreParsed(p) == IF p.nan THEN 0 ELSE ToUint8(p.n)

\* hex.startsWith('0x') ? hex.slice(2) : hex
CleanHex(hex) ==
    IF Len(hex) >= 2 /\ hex[1] = "0" /\ hex[2] = "x"
    THEN SubSeq(hex, 3, Len(hex))
    ELSE hex

\* how `new Uint8Array(n / 2)' treats a length that is not an integer: the
\* length is truncated (ToIndex), or the constructor throws a RangeError
\* (engines that still check the length with ToLength)
LengthRules == {"truncate", "range-error"}

\* FHEVMClient.fromHexString.  A store past the end of the typed array is
\* dropped, so an odd trailing digit never reaches the result.
FromHexString(hex, rule) ==
    LET cleanHex == CleanHex(hex)
        n == Len(cleanHex)
    IN IF n % 2 = 1 /\ rule = "range-error"
       THEN [threw |-> TRUE, error |-> "RangeError", bytes |-> <<>>]
       ELSE [threw |-> FALSE, error |-> "none",
             bytes |-> [k \in 1..(n \div 2) |->
                 StoreParsed(ParseInt16(SubSeq(cleanHex, 2 * k - 1, 2 * k)))]]

\* ethers.hexlify of a Uint8Array: '0x' + two lowercase hex digits per byte
HexlifyNoPrefix(bytes) == JoinHex(bytes)
Hexlify(bytes) == <<"0", "x">> \o JoinHex(bytes)

\* ethers.randomBytes(32): one of the enumerated 32-byte outcomes
RandomBytes(seed) == [i \in 1..BLOCK_LEN |-> (seed * 97 + i * 59 + 31) % 256]

(***************************************************************************)
(* FHEVMClient: simulated encryptor, encrypt32, encryptVote.               *)
(***************************************************************************)
\* the % operator of the source language: the remainder takes the sign of
\* the dividend
JsRem(a, n) == IF a >= 0 THEN a % n ELSE -((-a) % n)

\* data[i] = (value * 7 + i * 13) % 256, stored into a Uint8Array
DataByteIgnoresValue(value, i) == ToUint8(JsRem(i * 13, 256))
DataByte(value, i) == ToUint8(JsRem(value * 7 + i * 13, 256))

\* proof[i] = (value * 11 + i * 17) % 256, stored into a Uint8Array
ProofByte(value, i) == ToUint8(JsRem(value * 11 + i * 17, 256))

\* FHEVMClient.simulateEncryption; element i of the source is element i + 1
SimulateEncryption(value) ==
    [data  |-> [i \in 1..BLOCK_LEN |-> DataByte(value, i - 1)],
     proof |-> [i \in 1..BLOCK_LEN |-> ProofByte(value, i - 1)]]

\* what a backend handle's encrypt32 may do: throw, or return an opaque
\* ciphertext with or without a proof
BackendOutcomes ==
    {[threw |-> TRUE,  data |-> <<>>, hasProof |-> FALSE, proof |-> <<>>],
     [threw |-> FALSE, data |-> <<202, 254, 1>>, hasProof |-> TRUE,
      proof |-> <<190, 239>>],
     [threw |-> FALSE, data |-> <<202, 254, 2>>, hasProof |-> FALSE,
      proof |-> <<>>]}

Handle(key) == [tag |-> "handle", key |-> key]

\* FHEVMClient.isInitialized
IsInitializedStaleHandle(ready, inst) == inst # NULL
IsInitialized(ready, inst) == ready /\ inst # NULL

\* guard of encrypt32: the simulated path is taken without touching a handle
UseSimulationNoHandleOnly(ready, inst) == inst = NULL
UseSimulation(ready, inst) == ~ready \/ inst = NULL

\* catch block of encrypt32: the backend threw
Encrypt32CatchRethrow(value) ==
    [threw |-> TRUE, simulated |-> FALSE, backendInvoked |-> TRUE,
     data |-> <<>>, proof |-> <<>>]
Encrypt32Catch(value) ==
    [threw |-> FALSE, simulated |-> TRUE, backendInvoked |-> TRUE,
     data |-> SimulateEncryption(value).data,
     proof |-> SimulateEncryption(value).proof]

\* FHEVMClient.encrypt32(value) evaluated on the adapter fields, with the
\* backend behaving as `b' should the handle be invoked
Encrypt32(ready, inst, value, b) ==
    IF UseSimulation(ready, inst)
    THEN [threw |-> FALSE, simulated |-> TRUE, backendInvoked |-> FALSE,
          data |-> SimulateEncryption(value).data,
          proof |-> SimulateEncryption(value).proof]
    ELSE IF b.threw
         THEN Encrypt32Catch(value)
         ELSE [threw |-> FALSE, simulated |-> FALSE, backendInvoked |-> TRUE,
               data |-> b.data,
               proof |-> IF b.hasProof THEN b.proof ELSE <<>>]

\* guard of encryptVote: vote !== 0 && vote !== 1 throws
VoteAcceptedAny(vote) == TRUE
VoteAccepted(vote) == ~(vote # 0 /\ vote # 1)

\* FHEVMClient.encryptVote(vote)
EncryptVote(ready, inst, vote, b) ==
    IF ~VoteAccepted(vote)
    THEN [threw |-> TRUE, simulated |-> FALSE, backendInvoked |-> FALSE,
          data |-> <<>>, proof |-> <<>>]
    ELSE Encrypt32(ready, inst, vote, b)

(***************************************************************************)
(* Async invocations.  A slot holds one invocation of connect() or         *)
(* castVote(): `pc' is the await it is suspended at, the other fields are  *)
(* its arguments, its locals and a record of what it has done so far.      *)
(***************************************************************************)
FallbackKey == "0x0000000000000000000000000000000000000000000000000000000000000000"

PROVIDER == [tag |-> "provider"]
SIGNER == [tag |-> "signer"]
CONTRACT == [tag |-> "contract"]

NoEnc == [threw |-> FALSE, simulated |-> FALSE, backendInvoked |-> FALSE,
          data |-> <<>>, proof |-> <<>>]

NoDecoded == [threw |-> FALSE, error |-> "none", bytes |-> <<>>]

\* no direct call of the adapter made yet
NoDirect ==
    [op |-> "none", value |-> 0, ready |-> FALSE, hadHandle |-> FALSE,
     backendThrew |-> FALSE, res |-> NoEnc, readyAfter |-> FALSE,
     fieldsKept |-> TRUE,
     other |-> 0, res2 |-> NoEnc,              \* simulateEncryption, 2nd value
     bytes |-> <<>>, hex |-> <<>>,             \* codec argument / result
     decoded |-> NoDecoded]                    \* fromHexString outcome

IdleCall ==
    [op |-> "none", pc |-> "idle",
     proposalId |-> 0, optionIndex |-> 0,
     branch |-> "none",        \* castVote: "fhe" or "sim" branch taken
     encoderCalls |-> <<>>,    \* castVote: values passed to encryptVote
     enc |-> NoEnc,            \* castVote: what encryptVote resolved to
     writes |-> <<>>,          \* castVote: remote castVote writes issued
     degraded |-> FALSE,       \* castVote: no live backend when it started
     entry |-> <<>>,           \* castVote: the object fields when it started
     waited |-> FALSE,         \* castVote: tx.wait() completed
     status |-> -1,            \* castVote: receipt.status
     switchError |-> 0,        \* switchToSepolia: code of the caught
                               \* switchError while the add is awaited
     bound |-> FALSE,          \* connect: this call assigned signer and
                               \* contract
     initChain |-> 0,          \* init: chain id the provider reported
     fetchFailed |-> FALSE,    \* init: the public-key fetch failed
     keyRaced |-> FALSE,       \* init: another init stored a key meanwhile
     key |-> NoKey,            \* init: key handed to createInstance
     initOutcome |-> "none",   \* init: "ok", "degraded" or "threw"
     reads |-> 0,              \* getUserProfile: contract reads issued
     isAuthorized |-> FALSE,   \* getUserProfile: isAuthorizedVoter(address)
     isAdmin |-> FALSE,        \* getUserProfile: isAdmin(address)
     proposalCount |-> 0,      \* getUserProfile: proposalCount()
     scan |-> <<>>,            \* getUserProfile: outcome of hasVoted(i, ..)
     votedProposals |-> <<>>,  \* getUserProfile: the list being built
     voters |-> <<>>,          \* authorizeVoters: the argument
     args |-> <<>>,            \* createProposal, revealResults,
                               \* authorizeVoter: the arguments
     result |-> "pending",     \* "true", "false", "null", "profile", "throw"
     error |-> "none"]

Free(c) == calls[c].pc \in {"idle", "done"}

\* the fields of the VotingContract and of the adapter
Fields == <<contract, provider, signer, isFHEVMEnabled,
            instance, fhevmProvider, isReady, publicKey>>

Return(call, value) ==
    [call EXCEPT !.pc = "done", !.result = IF value THEN "true" ELSE "false"]

Throw(call, err) ==
    [call EXCEPT !.pc = "done", !.result = "throw", !.error = err]

\* connectLog after a step of connect() that left its invocation as `call'
ConnectLogAfter(call) ==
    IF call.pc # "done" THEN connectLog
    ELSE IF call.result = "true" THEN "ok"
    ELSE IF connectLog = "ok" THEN "ok" ELSE "failed"

\* no createProposal call issued by the latest step of the dialog
NoSubmit == [kind |-> "none", sent |-> <<>>]

\* CreateProposalDialog as mounted: useState(['', '']), useState(false)
ClosedDialog ==
    [options |-> <<"", "">>, isSubmitting |-> FALSE,
     pc |-> "idle",            \* "awaiting": onSubmit awaits createProposal
     submit |-> NoSubmit]      \* what the latest step did, if it was a submit

\* instants: Date.now() and the startTime / endTime of a proposal
Times == 0..MaxTime

\* the proposals prop: what the dashboard reads of each Proposal
ListedProposals ==
    UNION {[1..n -> [active : BOOLEAN, startTime : Times, endTime : Times]] :
              n \in 0..MaxListed}

\* the three Date.now() reads of one render, in the order they are made
ClockReads ==
    {nows \in [1..3 -> Times] : nows[1] <= nows[2] /\ nows[2] <= nows[3]}

\* predicate of the activeProposals filter
IsActiveNowStrict(p, now) ==
    p.active /\ now > p.startTime /\ now <= p.endTime
IsActiveNow(p, now) ==
    p.active /\ now >= p.startTime /\ now <= p.endTime

\* predicate of the pendingProposals filter
IsPendingNow(p, now) == p.active /\ now < p.startTime

\* predicate of the completedProposals filter
IsCompletedNow(p, now) == p.active /\ now > p.endTime

\* the three proposals.filter(...), as the positions of the proposals kept
ActiveProposals(proposals, now) ==
    {i \in 1..Len(proposals) : IsActiveNow(proposals[i], now)}

PendingProposals(proposals, now) ==
    {i \in 1..Len(proposals) : IsPendingNow(proposals[i], now)}

CompletedProposals(proposals, now) ==
    {i \in 1..Len(proposals) : IsCompletedNow(proposals[i], now)}

\* one render of VotingDashboard: the three lists of the proposals prop
Render(dash, proposals, nows) ==
    [dash EXCEPT
        !.proposals = proposals,
        !.nows = nows,
        !.activeProposals = ActiveProposals(proposals, nows[1]),
        !.pendingProposals = PendingProposals(proposals, nows[2]),
        !.completedProposals = CompletedProposals(proposals, nows[3])]

\* VotingDashboard with no proposals, before its first render:
\* useState(false), no refresh running
IdleDashboard ==
    [refreshing |-> FALSE,
     pc |-> "idle",            \* "r_refresh": handleRefresh awaits onRefresh
                               \* "r_timer": the 500 ms timer is pending
     proposals |-> <<>>,
     nows |-> <<>>,            \* empty until the first render
     activeProposals |-> {}, pendingProposals |-> {},
     completedProposals |-> {}]

Init ==
    /\ contract = NULL
    /\ provider = NULL
    /\ signer = NULL
    /\ isFHEVMEnabled = FALSE
    /\ instance = NULL
    /\ fhevmProvider = NULL
    /\ isReady = FALSE
    /\ publicKey = NoKey
    /\ lastInit = "none"
    /\ calls = [c \in Calls |-> IdleCall]
    /\ encResult = NoDirect
    /\ connectLog = "none"
    /\ dialog = ClosedDialog
    /\ dashboard = IdleDashboard

(***************************************************************************)
(* VotingContract.connect                                                  *)
(***************************************************************************)
\* entry of connect(): the wallet check, the provider, eth_requestAccounts
ConnectStart(c) ==
    /\ Free(c)
    /\ \E hasWallet \in BOOLEAN :
          IF hasWallet
          THEN /\ provider' = PROVIDER
               /\ calls' = [calls EXCEPT ![c] =
                     [IdleCall EXCEPT !.op = "connect", !.pc = "c_accounts"]]
          ELSE /\ provider' = provider
               /\ calls' = [calls EXCEPT ![c] =
                     Throw([IdleCall EXCEPT !.op = "connect"], "NoWallet")]
    /\ UNCHANGED <<contract, signer, isFHEVMEnabled, fheVars, lastInit,
                   encResult, uiVars>>
    /\ connectLog' = ConnectLogAfter(calls'[c])

\* eth_requestAccounts settles; getNetwork is requested
ConnectAccounts(c) ==
    /\ calls[c].pc = "c_accounts"
    /\ \E ok \in BOOLEAN :
          calls' = [calls EXCEPT ![c] =
              IF ok THEN [@ EXCEPT !.pc = "c_network"]
              ELSE Throw(@, "AccountsRejected")]
    /\ UNCHANGED <<vcVars, fheVars, lastInit, encResult, uiVars>>
    /\ connectLog' = ConnectLogAfter(calls'[c])

\* getNetwork settles; on another chain switchToSepolia() is entered
ConnectNetwork(c) ==
    /\ calls[c].pc = "c_network"
    /\ \E ok \in BOOLEAN, chainId \in ChainIds, hasWallet \in BOOLEAN :
          calls' = [calls EXCEPT ![c] =
              IF ~ok THEN Throw(@, "NetworkError")
              ELSE IF chainId # SEPOLIA_CHAIN_ID /\ hasWallet
                   THEN [@ EXCEPT !.pc = "c_switch"]
                   ELSE [@ EXCEPT !.pc = "c_signer"]]
    /\ UNCHANGED <<vcVars, fheVars, lastInit, encResult, uiVars>>
    /\ connectLog' = ConnectLogAfter(calls'[c])

\* switchToSepolia: if (switchError.code === 4902)
AddAfterAnySwitchError(code) == TRUE
AddAfterSwitchError(code) == code = ERR_CHAIN_NOT_ADDED

\* switchToSepolia: wallet_switchEthereumChain settles
ConnectSwitch(c) ==
    /\ calls[c].pc = "c_switch"
    /\ \E ok \in BOOLEAN, code \in SwitchErrorCodes :
          calls' = [calls EXCEPT ![c] =
              IF ok THEN [@ EXCEPT !.pc = "c_signer"]
              ELSE IF AddAfterSwitchError(code)
                   THEN [@ EXCEPT !.pc = "c_add", !.switchError = code]
                   ELSE Throw(@, "SwitchFailed")]
    /\ UNCHANGED <<vcVars, fheVars, lastInit, encResult, uiVars>>
    /\ connectLog' = ConnectLogAfter(calls'[c])

\* switchToSepolia: wallet_addEthereumChain settles
ConnectAdd(c) ==
    /\ calls[c].pc = "c_add"
    /\ \E ok \in BOOLEAN :
          calls' = [calls EXCEPT ![c] =
              IF ok THEN [@ EXCEPT !.pc = "c_signer", !.switchError = 0]
              ELSE Throw([@ EXCEPT !.switchError = 0], "AddFailed")]
    /\ UNCHANGED <<vcVars, fheVars, lastInit, encResult, uiVars>>
    /\ connectLog' = ConnectLogAfter(calls'[c])

\* getSigner settles; the contract is bound and fhevmClient.init is entered
ConnectSigner(c) ==
    /\ calls[c].pc = "c_signer"
    /\ \E ok \in BOOLEAN :
          IF ok
          THEN /\ signer' = SIGNER
               /\ contract' = CONTRACT
               /\ fhevmProvider' = provider
               /\ calls' = [calls EXCEPT ![c] =
                     [@ EXCEPT !.pc = "i_network", !.bound = TRUE]]
          ELSE /\ UNCHANGED <<signer, contract, fhevmProvider>>
               /\ calls' = [calls EXCEPT ![c] = Throw(@, "SignerError")]
    /\ UNCHANGED <<provider, isFHEVMEnabled, instance, isReady, publicKey,
                   lastInit, encResult, uiVars>>
    /\ connectLog' = ConnectLogAfter(calls'[c])

(***************************************************************************)
(* FHEVMClient.init, running inside connect()                              *)
(***************************************************************************)
\* connect's catch around fhevmClient.init: the failure is swallowed
ConnectCatchInitRethrow(call) ==
    Throw([call EXCEPT !.initOutcome = "threw"], "InitError")
ConnectCatchInit(call) ==
    [call EXCEPT !.pc = "c_test", !.initOutcome = "threw"]

\* init: provider.getNetwork settles; fetchPublicKey is entered
InitNetwork(c) ==
    /\ calls[c].pc = "i_network"
    /\ \E ok \in BOOLEAN, chainId \in ChainIds :
          IF ok
          THEN /\ calls' = [calls EXCEPT ![c] =
                     [@ EXCEPT !.pc = "i_fetch", !.initChain = chainId]]
               /\ UNCHANGED <<isReady, isFHEVMEnabled, lastInit>>
          ELSE \* outer catch of init, then the catch in connect
               /\ isReady' = FALSE
               /\ lastInit' = "failed"
               /\ isFHEVMEnabled' = FALSE
               /\ calls' = [calls EXCEPT ![c] = ConnectCatchInit(@)]
    /\ UNCHANGED <<contract, provider, signer, instance, fhevmProvider,
                   publicKey, encResult, uiVars>>
    /\ connectLog' = ConnectLogAfter(calls'[c])

\* what the gateway's public-key request may do
FetchOutcomes == {"key", "noKeyField", "notOk", "networkError"}

\* fetchPublicKey: the value left in this.publicKey
FetchedKey(outcome) == IF outcome = "key" THEN GatewayKey ELSE NoKey

\* init: fetchPublicKey settles (it never throws); fhevmjs is imported
InitFetch(c) ==
    /\ calls[c].pc = "i_fetch"
    /\ \E outcome \in FetchOutcomes :
          /\ publicKey' = FetchedKey(outcome)
          /\ calls' = [d \in Calls |->
                IF d = c
                THEN [calls[d] EXCEPT !.pc = "i_import",
                        !.fetchFailed = outcome \in {"notOk", "networkError"}]
                ELSE IF calls[d].pc = "i_import" /\ outcome = "key"
                     THEN [calls[d] EXCEPT !.keyRaced = TRUE]
                     ELSE calls[d]]
    /\ UNCHANGED <<vcVars, instance, fhevmProvider, isReady, lastInit,
                   encResult, uiVars>>
    /\ connectLog' = ConnectLogAfter(calls'[c])

\* publicKey: this.publicKey || await this.getDefaultPublicKey()
CreateInstanceKeyNoFallback(pk) == pk
CreateInstanceKey(pk) == IF pk # NoKey THEN pk ELSE FallbackKey

\* inner catch of init (fhevmjs failed): degrade, return normally; connect
\* then sets isFHEVMEnabled
InitDegrade(c) ==
    /\ isReady' = FALSE
    /\ lastInit' = "failed"
    /\ isFHEVMEnabled' = TRUE
    /\ calls' = [calls EXCEPT ![c] =
          [@ EXCEPT !.pc = "c_test", !.initOutcome = "degraded"]]
    /\ UNCHANGED instance

\* init: import('fhevmjs') settles; createInstance is called with the key
InitImport(c) ==
    /\ calls[c].pc = "i_import"
    /\ \E ok \in BOOLEAN :
          IF ok
          THEN /\ calls' = [calls EXCEPT ![c] =
                     [@ EXCEPT !.pc = "i_create",
                               !.key = CreateInstanceKey(publicKey)]]
               /\ UNCHANGED <<isReady, isFHEVMEnabled, lastInit, instance>>
          ELSE InitDegrade(c)
    /\ UNCHANGED <<contract, provider, signer, fhevmProvider, publicKey,
                   encResult, uiVars>>
    /\ connectLog' = ConnectLogAfter(calls'[c])

\* init: createInstance settles
InitCreate(c) ==
    /\ calls[c].pc = "i_create"
    /\ \E ok \in BOOLEAN :
          IF ok
          THEN /\ instance' = Handle(calls[c].key)
               /\ isReady' = TRUE
               /\ lastInit' = "ok"
               /\ isFHEVMEnabled' = TRUE
               /\ calls' = [calls EXCEPT ![c] =
                     [@ EXCEPT !.pc = "c_test", !.initOutcome = "ok"]]
          ELSE InitDegrade(c)
    /\ UNCHANGED <<contract, provider, signer, fhevmProvider, publicKey,
                   encResult, uiVars>>
    /\ connectLog' = ConnectLogAfter(calls'[c])

\* connect: the contract.proposalCount() connection test settles
ConnectTest(c) ==
    /\ calls[c].pc = "c_test"
    /\ \E ok \in BOOLEAN :
          calls' = [calls EXCEPT ![c] =
              IF ok THEN Return(@, TRUE)
              ELSE Throw(@, "ContractUnreachable")]
    /\ UNCHANGED <<vcVars, fheVars, lastInit, encResult, uiVars>>
    /\ connectLog' = ConnectLogAfter(calls'[c])

(***************************************************************************)
(* VotingContract.castVote                                                 *)
(***************************************************************************)
\* receipt.status === 1
ReceiptOkAnyStatus(status) == TRUE
ReceiptOk(status) == status = RECEIPT_SUCCESS

WriteErrorName(k) == IF k = 1 THEN "WriteError1" ELSE "WriteError2"

\* contract.castVote(...) carrying two fresh random 32-byte blocks
SimWrite(pid, oi, s1, s2) ==
    [method |-> "castVote", proposalId |-> pid, optionIndex |-> oi,
     encryptedVote |-> Hexlify(RandomBytes(s1)),
     proof |-> Hexlify(RandomBytes(s2)),
     src |-> "random", outcome |-> "pending", error |-> "none"]

\* contract.castVote(...) carrying the adapter's ciphertext
FheWrite(pid, oi, enc) ==
    [method |-> "castVote", proposalId |-> pid, optionIndex |-> oi,
     encryptedVote |-> CreateExternalInput(enc.data),
     proof |-> ToHexString(enc.proof),
     src |-> "adapter", outcome |-> "pending", error |-> "none"]

\* remote writes issued by the FHE branch while encryptVote is still pending
WritesBeforeEncryptedEager(pid, oi, enc) == <<FheWrite(pid, oi, enc)>>
WritesBeforeEncrypted(pid, oi, enc) == <<>>

SettleLast(writes, ok) ==
    [writes EXCEPT ![Len(writes)] =
        [@ EXCEPT !.outcome = IF ok THEN "sent" ELSE "threw",
                  !.error = IF ok THEN "none" ELSE WriteErrorName(Len(writes))]]

\* the value castVote hands to encryptVote: the constant 1 ("vote for this
\* option"), not the option index
VotePayloadOption(optionIndex) == optionIndex
VotePayload(optionIndex) == 1

\* a castVote for proposal pid, other than invocation c, is awaiting its
\* write or its receipt
VoteInFlight(c, pid) ==
    \E d \in Calls \ {c} :
        /\ calls[d].op = "castVote"
        /\ calls[d].pc \in {"v_write_fhe", "v_write", "v_wait"}
        /\ calls[d].proposalId = pid

\* if (!this.contract) return false: the only reason castVote gives up
\* before encrypting
CastVoteRefusedWhileInFlight(c, pid) == contract = NULL \/ VoteInFlight(c, pid)
CastVoteRefused(c, pid) == contract = NULL

\* the backend's encrypt32 is randomized: the ciphertext it returns to
\* invocation c is one no other invocation receives
FreshCiphertext(b, c) ==
    IF b.threw THEN b ELSE [b EXCEPT !.data = Append(@, c)]

\* entry of castVote(): the contract check, the mode check, and either the
\* call of encryptVote(1) or the simulated write
CastVote(c, pid, oi) ==
    /\ Free(c)
    /\ LET base == [IdleCall EXCEPT !.op = "castVote", !.proposalId = pid,
                                    !.optionIndex = oi,
                                    !.degraded = lastInit # "ok",
                                    !.entry = Fields]
       IN IF CastVoteRefused(c, pid)
          THEN calls' = [calls EXCEPT ![c] = Return(base, FALSE)]
          ELSE IF isFHEVMEnabled /\ IsInitialized(isReady, instance)
          THEN \E b \in BackendOutcomes :
                 LET enc == EncryptVote(isReady, instance,
                                        VotePayload(oi),
                                        FreshCiphertext(b, c)) IN
                 calls' = [calls EXCEPT ![c] =
                     [base EXCEPT !.pc = "v_encrypt", !.branch = "fhe",
                         !.encoderCalls = <<VotePayload(oi)>>, !.enc = enc,
                         !.writes = WritesBeforeEncrypted(pid, oi, enc)]]
          ELSE \E s1 \in Seeds, s2 \in Seeds :
                 calls' = [calls EXCEPT ![c] =
                     [base EXCEPT !.pc = "v_write", !.branch = "sim",
                         !.writes = <<SimWrite(pid, oi, s1, s2)>>]]
    /\ UNCHANGED <<vcVars, fheVars, lastInit, encResult, connectLog, uiVars>>

\* castVote called with any of the enumerated arguments
CastVoteStart(c) ==
    \E pid \in ProposalIds, oi \in OptionIndexes : CastVote(c, pid, oi)

\* the await on encryptVote settles: hex conversion and the remote write,
\* or the catch block's simulated write if it threw
CastVoteEncrypted(c) ==
    /\ calls[c].pc = "v_encrypt"
    /\ LET call == calls[c] IN
          IF call.enc.threw
          THEN \E s1 \in Seeds, s2 \in Seeds :
                 calls' = [calls EXCEPT ![c] =
                     [call EXCEPT !.pc = "v_write",
                        !.writes = Append(@, SimWrite(call.proposalId,
                                              call.optionIndex, s1, s2))]]
          ELSE calls' = [calls EXCEPT ![c] =
                     [call EXCEPT !.pc = "v_write_fhe",
                        !.writes = Append(@, FheWrite(call.proposalId,
                                              call.optionIndex, call.enc))]]
    /\ UNCHANGED <<vcVars, fheVars, lastInit, encResult, connectLog, uiVars>>

\* the write issued inside the FHE try block settles; a rejection lands in
\* the same catch block, which issues the simulated write
CastVoteWriteFhe(c) ==
    /\ calls[c].pc = "v_write_fhe"
    /\ LET call == calls[c] IN
          \/ calls' = [calls EXCEPT ![c] =
                 [call EXCEPT !.pc = "v_wait",
                              !.writes = SettleLast(call.writes, TRUE)]]
          \/ \E s1 \in Seeds, s2 \in Seeds :
                 calls' = [calls EXCEPT ![c] =
                     [call EXCEPT !.pc = "v_write",
                        !.writes = Append(SettleLast(call.writes, FALSE),
                                     SimWrite(call.proposalId,
                                              call.optionIndex, s1, s2))]]
    /\ UNCHANGED <<vcVars, fheVars, lastInit, encResult, connectLog, uiVars>>

\* a simulated write settles; a rejection reaches the outer catch
CastVoteWrite(c) ==
    /\ calls[c].pc = "v_write"
    /\ \E ok \in BOOLEAN :
          LET call == calls[c]
              settled == SettleLast(call.writes, ok)
          IN calls' = [calls EXCEPT ![c] =
              IF ok
              THEN [call EXCEPT !.pc = "v_wait", !.writes = settled]
              ELSE Throw([call EXCEPT !.writes = settled],
                         WriteErrorName(Len(call.writes)))]
    /\ UNCHANGED <<vcVars, fheVars, lastInit, encResult, connectLog, uiVars>>

\* tx.wait() settles
CastVoteWait(c) ==
    /\ calls[c].pc = "v_wait"
    /\ \/ \E status \in {0, 1} :
             calls' = [calls EXCEPT ![c] =
                 Return([@ EXCEPT !.waited = TRUE, !.status = status],
                        ReceiptOk(status))]
       \/ calls' = [calls EXCEPT ![c] = Throw(@, "WaitError")]
    /\ UNCHANGED <<vcVars, fheVars, lastInit, encResult, connectLog, uiVars>>

(***************************************************************************)
(* VotingContract.getUserProfile                                           *)
(***************************************************************************)
\* what a contract read of a boolean may do
ReadOutcomes == {"true", "false", "threw"}

\* outer catch of getUserProfile: the error is logged, null is returned
ProfileCatchRethrow(call, err) == Throw(call, err)
ProfileCatch(call, err) ==
    [call EXCEPT !.pc = "done", !.result = "null", !.error = err]

\* return { address, isAuthorized, isAdmin, votedProposals }
ProfileReturn(call) == [call EXCEPT !.pc = "done", !.result = "profile"]

\* catch inside the loop: the failure is logged and the loop goes on
ScanCatchAbort(call) == ProfileCatch(call, "HasVotedError")
ScanCatch(call) ==
    IF Len(call.scan) < call.proposalCount
    THEN [call EXCEPT !.pc = "p_scan", !.reads = @ + 1]
    ELSE ProfileReturn(call)

\* entry of getUserProfile(): the signer/contract check, signer.getAddress()
GetUserProfileStart(c) ==
    /\ Free(c)
    /\ LET base == [IdleCall EXCEPT !.op = "getUserProfile",
                                    !.entry = Fields]
       IN calls' = [calls EXCEPT ![c] =
              IF signer = NULL \/ contract = NULL
              THEN [base EXCEPT !.pc = "done", !.result = "null"]
              ELSE [base EXCEPT !.pc = "p_address"]]
    /\ UNCHANGED <<vcVars, fheVars, lastInit, encResult, connectLog, uiVars>>

\* getAddress settles; isAuthorizedVoter and isAdmin are read together
ProfileAddress(c) ==
    /\ calls[c].pc = "p_address"
    /\ \E ok \in BOOLEAN :
          calls' = [calls EXCEPT ![c] =
              IF ok THEN [@ EXCEPT !.pc = "p_flags", !.reads = @ + 2]
              ELSE ProfileCatch(@, "AddressError")]
    /\ UNCHANGED <<vcVars, fheVars, lastInit, encResult, connectLog, uiVars>>

\* Promise.all settles: it rejects when either read rejects; otherwise
\* proposalCount() is read
ProfileFlags(c) ==
    /\ calls[c].pc = "p_flags"
    /\ \E a \in ReadOutcomes, b \in ReadOutcomes :
          calls' = [calls EXCEPT ![c] =
              IF a = "threw" \/ b = "threw"
              THEN ProfileCatch(@, "FlagsError")
              ELSE [@ EXCEPT !.pc = "p_count", !.reads = @ + 1,
                             !.isAuthorized = (a = "true"),
                             !.isAdmin = (b = "true")]]
    /\ UNCHANGED <<vcVars, fheVars, lastInit, encResult, connectLog, uiVars>>

\* proposalCount() settles; the loop reads hasVoted(0, address) or, with no
\* proposal, the profile is returned
ProfileCount(c) ==
    /\ calls[c].pc = "p_count"
    /\ \/ \E n \in 0..MaxProposals :
             calls' = [calls EXCEPT ![c] =
                 IF 0 < n
                 THEN [@ EXCEPT !.pc = "p_scan", !.proposalCount = n,
                                !.reads = @ + 1]
                 ELSE ProfileReturn([@ EXCEPT !.proposalCount = n])]
       \/ calls' = [calls EXCEPT ![c] = ProfileCatch(@, "CountError")]
    /\ UNCHANGED <<vcVars, fheVars, lastInit, encResult, connectLog, uiVars>>

\* hasVoted(i, address) settles for i = Len(scan); the loop moves on to
\* i + 1 or the profile is returned
ProfileScan(c) ==
    /\ calls[c].pc = "p_scan"
    /\ \E outcome \in ReadOutcomes :
          LET call == calls[c]
              i == Len(call.scan)
              seen == [call EXCEPT !.scan = Append(@, outcome)]
              pushed == [seen EXCEPT !.votedProposals = Append(@, i)]
          IN calls' = [calls EXCEPT ![c] =
                 IF outcome = "threw" THEN ScanCatch(seen)
                 ELSE LET next == IF outcome = "true" THEN pushed ELSE seen
                      IN IF i + 1 < call.proposalCount
                         THEN [next EXCEPT !.reads = @ + 1]
                         ELSE ProfileReturn(next)]
    /\ UNCHANGED <<vcVars, fheVars, lastInit, encResult, connectLog, uiVars>>

(***************************************************************************)
(* VotingContract.authorizeVoters                                          *)
(***************************************************************************)
\* the remote writes authorizeVoters(voterAddresses) issues: one
\* contract.authorizeVoters call carrying the list
AuthorizeWritesPerAddress(voterAddresses) ==
    [k \in 1..Len(voterAddresses) |->
        [method |-> "authorizeVoter", voters |-> <<voterAddresses[k]>>,
         outcome |-> "pending", error |-> "none"]]
AuthorizeWrites(voterAddresses) ==
    <<[method |-> "authorizeVoters", voters |-> voterAddresses,
       outcome |-> "pending", error |-> "none"]>>

\* entry of authorizeVoters(): the contract check and the remote write
AuthorizeVotersStart(c) ==
    /\ Free(c)
    /\ \E voterAddresses \in VoterLists :
          LET base == [IdleCall EXCEPT !.op = "authorizeVoters",
                                       !.voters = voterAddresses,
                                       !.entry = Fields]
          IN calls' = [calls EXCEPT ![c] =
                 IF contract = NULL THEN Return(base, FALSE)
                 ELSE [base EXCEPT !.pc = "a_write",
                          !.writes = AuthorizeWrites(voterAddresses)]]
    /\ UNCHANGED <<vcVars, fheVars, lastInit, encResult, connectLog, uiVars>>

\* the write settles; a rejection is logged and rethrown
AuthorizeVotersWrite(c) ==
    /\ calls[c].pc = "a_write"
    /\ \E ok \in BOOLEAN :
          LET call == calls[c]
              settled == SettleLast(call.writes, ok)
          IN calls' = [calls EXCEPT ![c] =
              IF ok
              THEN [call EXCEPT !.pc = "a_wait", !.writes = settled]
              ELSE Throw([call EXCEPT !.writes = settled],
                         WriteErrorName(Len(call.writes)))]
    /\ UNCHANGED <<vcVars, fheVars, lastInit, encResult, connectLog, uiVars>>

\* tx.wait() settles
AuthorizeVotersWait(c) ==
    /\ calls[c].pc = "a_wait"
    /\ \/ \E status \in {0, 1} :
             calls' = [calls EXCEPT ![c] =
                 Return([@ EXCEPT !.waited = TRUE, !.status = status],
                        ReceiptOk(status))]
       \/ calls' = [calls EXCEPT ![c] = Throw(@, "WaitError")]
    /\ UNCHANGED <<vcVars, fheVars, lastInit, encResult, connectLog, uiVars>>

(***************************************************************************)
(* VotingContract.createProposal, revealResults, authorizeVoter: each is   *)
(* the contract check, one remote write, tx.wait() and receipt.status.     *)
(***************************************************************************)
\* if (!this.contract) return false
WriteRefusedNever(ct) == FALSE
WriteRefused(ct) == ct = NULL

\* the remote write of a single-write operation
OneWrite(method, args) ==
    <<[method |-> method, args |-> args,
       outcome |-> "pending", error |-> "none"]>>

\* entry of a single-write operation called with `args'
WriteOpStart(c, op, args) ==
    /\ Free(c)
    /\ LET base == [IdleCall EXCEPT !.op = op, !.args = args,
                                    !.entry = Fields]
       IN calls' = [calls EXCEPT ![c] =
              IF WriteRefused(contract) THEN Return(base, FALSE)
              ELSE [base EXCEPT !.pc = "w_write",
                                !.writes = OneWrite(op, args)]]
    /\ UNCHANGED <<vcVars, fheVars, lastInit, encResult, connectLog, uiVars>>

\* the write of a single-write operation settles; a rejection is rethrown
WriteOpWrite(c, op) ==
    /\ calls[c].op = op
    /\ calls[c].pc = "w_write"
    /\ \E ok \in BOOLEAN :
          LET call == calls[c]
              settled == SettleLast(call.writes, ok)
          IN calls' = [calls EXCEPT ![c] =
              IF ok
              THEN [call EXCEPT !.pc = "w_wait", !.writes = settled]
              ELSE Throw([call EXCEPT !.writes = settled],
                         WriteErrorName(Len(call.writes)))]
    /\ UNCHANGED <<vcVars, fheVars, lastInit, encResult, connectLog, uiVars>>

\* tx.wait() of a single-write operation settles
WriteOpWait(c, op) ==
    /\ calls[c].op = op
    /\ calls[c].pc = "w_wait"
    /\ \/ \E status \in {0, 1} :
             calls' = [calls EXCEPT ![c] =
                 Return([@ EXCEPT !.waited = TRUE, !.status = status],
                        ReceiptOk(status))]
       \/ calls' = [calls EXCEPT ![c] = Throw(@, "WaitError")]
    /\ UNCHANGED <<vcVars, fheVars, lastInit, encResult, connectLog, uiVars>>

\* createProposal(title, description, options, duration), as the dialog
\* calls it
CreateProposalStart(c) ==
    WriteOpStart(c, "createProposal", <<"title", "description",
                                        <<"A", "A">>, 24 * 3600>>)
CreateProposalWrite(c) == WriteOpWrite(c, "createProposal")
CreateProposalWait(c) == WriteOpWait(c, "createProposal")

\* revealResults(proposalId)
RevealResultsStart(c) == WriteOpStart(c, "revealResults", <<0>>)
RevealResultsWrite(c) == WriteOpWrite(c, "revealResults")
RevealResultsWait(c) == WriteOpWait(c, "revealResults")

\* authorizeVoter(voterAddress)
AuthorizeVoterStart(c) == WriteOpStart(c, "authorizeVoter", <<"0xA11ce">>)
AuthorizeVoterWrite(c) == WriteOpWrite(c, "authorizeVoter")
AuthorizeVoterWait(c) == WriteOpWait(c, "authorizeVoter")

(***************************************************************************)
(* VotingContract.getActiveProposals                                       *)
(***************************************************************************)
\* outer catch of getActiveProposals: the error is logged, [] is returned
ProposalsCatch(call, err) ==
    [call EXCEPT !.pc = "done", !.result = "empty", !.error = err]

\* return proposals: one entry per proposal the contract listed
ProposalsReturn(call) == [call EXCEPT !.pc = "done", !.result = "list"]

\* entry of getActiveProposals(): the contract check and the list read
GetActiveProposalsStart(c) ==
    /\ Free(c)
    /\ LET base == [IdleCall EXCEPT !.op = "getActiveProposals",
                                    !.entry = Fields]
       IN calls' = [calls EXCEPT ![c] =
              IF contract = NULL
              THEN [base EXCEPT !.pc = "done", !.result = "empty"]
              ELSE [base EXCEPT !.pc = "g_list", !.reads = 1]]
    /\ UNCHANGED <<vcVars, fheVars, lastInit, encResult, connectLog, uiVars>>

\* contract.getActiveProposals() settles; signer.getAddress() is awaited
\* when a signer is set
ProposalsList(c) ==
    /\ calls[c].pc = "g_list"
    /\ \/ \E n \in 0..MaxProposals :
             calls' = [calls EXCEPT ![c] =
                 IF signer # NULL
                 THEN [@ EXCEPT !.pc = "g_address", !.proposalCount = n]
                 ELSE ProposalsReturn([@ EXCEPT !.proposalCount = n,
                          !.scan = [k \in 1..n |-> "unasked"]])]
       \/ calls' = [calls EXCEPT ![c] = ProposalsCatch(@, "ListError")]
    /\ UNCHANGED <<vcVars, fheVars, lastInit, encResult, connectLog, uiVars>>

\* getAddress settles; the loop reads hasVoted for the first proposal
ProposalsAddress(c) ==
    /\ calls[c].pc = "g_address"
    /\ \E ok \in BOOLEAN :
          calls' = [calls EXCEPT ![c] =
              IF ~ok THEN ProposalsCatch(@, "AddressError")
              ELSE IF 0 < @.proposalCount
                   THEN [@ EXCEPT !.pc = "g_scan", !.reads = @ + 1]
                   ELSE ProposalsReturn(@)]
    /\ UNCHANGED <<vcVars, fheVars, lastInit, encResult, connectLog, uiVars>>

\* hasVoted(proposalData.id, userAddress) settles: a rejection leaves
\* hasVoted false; the loop goes on or the list is returned
ProposalsScan(c) ==
    /\ calls[c].pc = "g_scan"
    /\ \E outcome \in ReadOutcomes :
          LET call == calls[c]
              seen == [call EXCEPT !.scan = Append(@, outcome)]
          IN calls' = [calls EXCEPT ![c] =
                 IF Len(seen.scan) < call.proposalCount
                 THEN [seen EXCEPT !.reads = @ + 1]
                 ELSE ProposalsReturn(seen)]
    /\ UNCHANGED <<vcVars, fheVars, lastInit, encResult, connectLog, uiVars>>

(***************************************************************************)
(* Direct calls of the adapter's public methods.  encResult records the    *)
(* call: whether the last completed init() had built a handle (ready),     *)
(* whether a handle was stored (hadHandle), how the backend would behave,  *)
(* the arguments, the result, isInitialized() right after the call and     *)
(* whether the call left instance, isReady and publicKey as they were.     *)
(***************************************************************************)
\* instance, isReady and publicKey after encrypt32 / encryptVote resolved to
\* `res': neither method nor simulateEncryption assigns a field
Encrypt32FieldsResetOnThrow(inst, ready, pk, res) ==
    IF res.backendInvoked /\ res.simulated
    THEN <<NULL, FALSE, pk>>
    ELSE <<inst, ready, pk>>
Encrypt32Fields(inst, ready, pk, res) == <<inst, ready, pk>>

DirectRecord(op) ==
    [NoDirect EXCEPT !.op = op, !.ready = lastInit = "ok",
                     !.hadHandle = instance # NULL,
                     !.readyAfter = IsInitialized(isReady, instance),
                     !.fieldsKept = TRUE]

DirectEncrypt(op, v, b, res) ==
    LET after == Encrypt32Fields(instance, isReady, publicKey, res) IN
    /\ instance' = after[1]
    /\ isReady' = after[2]
    /\ publicKey' = after[3]
    /\ encResult' = [DirectRecord(op) EXCEPT
           !.value = v, !.backendThrew = b.threw, !.res = res,
           !.readyAfter = IsInitialized(after[2], after[1]),
           !.fieldsKept = (after = <<instance, isReady, publicKey>>)]
    /\ UNCHANGED <<vcVars, fhevmProvider, lastInit, calls, connectLog, uiVars>>

\* fhevmClient.encrypt32(v)
DirectEncrypt32 ==
    \E v \in Values, b \in BackendOutcomes :
        DirectEncrypt("encrypt32", v, b, Encrypt32(isReady, instance, v, b))

\* fhevmClient.encryptVote(v)
DirectEncryptVote ==
    \E v \in Values, b \in BackendOutcomes :
        DirectEncrypt("encryptVote", v, b, EncryptVote(isReady, instance, v, b))

\* fhevmClient.toHexString(bytes)
DirectToHexString(inputs) ==
    /\ \E bytes \in inputs :
          encResult' = [DirectRecord("toHexString") EXCEPT
              !.bytes = bytes, !.hex = ToHexString(bytes)]
    /\ UNCHANGED <<vcVars, fheVars, lastInit, calls, connectLog, uiVars>>

\* fhevmClient.fromHexString(hex)
DirectFromHexString(inputs) ==
    /\ \E hex \in inputs, rule \in LengthRules :
          encResult' = [DirectRecord("fromHexString") EXCEPT
              !.hex = hex, !.decoded = FromHexString(hex, rule)]
    /\ UNCHANGED <<vcVars, fheVars, lastInit, calls, connectLog, uiVars>>

\* fhevmClient.createExternalInput(encryptedData)
DirectCreateExternalInput(inputs) ==
    /\ \E bytes \in inputs :
          encResult' = [DirectRecord("createExternalInput") EXCEPT
              !.bytes = bytes, !.hex = CreateExternalInput(bytes)]
    /\ UNCHANGED <<vcVars, fheVars, lastInit, calls, connectLog, uiVars>>

\* simulateEncryption applied to two values
ApplySimulateEncryption ==
    /\ \E v \in SimValues, w \in SimValues :
          encResult' = [DirectRecord("simulateEncryption") EXCEPT
              !.value = v, !.other = w,
              !.res = [NoEnc EXCEPT !.simulated = TRUE,
                          !.data = SimulateEncryption(v).data,
                          !.proof = SimulateEncryption(v).proof],
              !.res2 = [NoEnc EXCEPT !.simulated = TRUE,
                          !.data = SimulateEncryption(w).data,
                          !.proof = SimulateEncryption(w).proof]]
    /\ UNCHANGED <<vcVars, fheVars, lastInit, calls, connectLog, uiVars>>

\* fromHexString applied to the result of toHexString
ApplyRoundTrip ==
    /\ \E bytes \in BytesInputs, rule \in LengthRules :
          encResult' = [DirectRecord("roundTrip") EXCEPT
              !.bytes = bytes, !.hex = ToHexString(bytes),
              !.decoded = FromHexString(ToHexString(bytes), rule)]
    /\ UNCHANGED <<vcVars, fheVars, lastInit, calls, connectLog, uiVars>>

\* arguments of the codec calls made between connects
AdapterBytes == {<<>>, <<171, 7>>}
AdapterHex == {<<"0", "x", "a", "b", "0", "7">>, <<"a", "B", "c">>}

(***************************************************************************)
(* CreateProposalDialog: the option list and onSubmit.                     *)
(***************************************************************************)
coreVars == <<vcVars, fheVars, lastInit, calls, encResult, connectLog>>

\* texts typed into an option field: empty, whitespace only, a word
OptionTexts == {"", " ", "A"}

\* option.trim()
Trim(text) == IF text = " " THEN "" ELSE text

\* options.filter(option => option.trim() !== '')
ValidOptionsUnfiltered(options) == options
ValidOptions(options) == SelectSeq(options, LAMBDA o : Trim(o) # "")

\* options.filter((_, i) => i !== index), index counted from 1
RemoveAt(options, index) ==
    [k \in 1..(Len(options) - 1) |->
        IF k < index THEN options[k] ELSE options[k + 1]]

\* every handler other than onSubmit leaves the record of the last submit
\* behind
Edited(d, options) == [d EXCEPT !.options = options, !.submit = NoSubmit]

AddOption ==
    /\ dialog' = IF Len(dialog.options) < MAX_OPTIONS
                 THEN Edited(dialog, Append(dialog.options, ""))
                 ELSE Edited(dialog, dialog.options)
    /\ UNCHANGED <<coreVars, dashboard>>

\* the remove button of a field is rendered only while options.length > 2
RemoveOption ==
    /\ \E index \in 1..Len(dialog.options) :
          dialog' = IF Len(dialog.options) > MIN_OPTIONS
                    THEN Edited(dialog, RemoveAt(dialog.options, index))
                    ELSE Edited(dialog, dialog.options)
    /\ UNCHANGED <<coreVars, dashboard>>

UpdateOption ==
    /\ \E index \in 1..Len(dialog.options), value \in OptionTexts :
          dialog' = Edited(dialog, [dialog.options EXCEPT ![index] = value])
    /\ UNCHANGED <<coreVars, dashboard>>

\* onSubmit up to its await: the submit button is disabled while
\* isSubmitting
Submit ==
    /\ ~dialog.isSubmitting
    /\ LET validOptions == ValidOptions(dialog.options) IN
       dialog' = IF Len(validOptions) < MIN_OPTIONS
                 THEN [dialog EXCEPT !.submit =
                          [kind |-> "rejected", sent |-> <<>>]]
                 ELSE [dialog EXCEPT !.isSubmitting = TRUE,
                          !.pc = "awaiting",
                          !.submit = [kind |-> "called",
                                      sent |-> validOptions]]
    /\ UNCHANGED <<coreVars, dashboard>>

\* votingContract.createProposal settles: true resets the form, false or a
\* rejection ends in the catch; finally clears isSubmitting
SubmitSettle ==
    /\ dialog.pc = "awaiting"
    /\ \E success \in {"true", "false", "throw"} :
          dialog' = [dialog EXCEPT
              !.options = IF success = "true" THEN <<"", "">> ELSE @,
              !.isSubmitting = FALSE, !.pc = "idle", !.submit = NoSubmit]
    /\ UNCHANGED <<coreVars, dashboard>>

(***************************************************************************)
(* VotingDashboard                                                         *)
(***************************************************************************)
\* React renders the component, the first time or again at a later time
VotingDashboardRender ==
    /\ \E nows \in ClockReads :
          /\ IF dashboard.nows = <<>> THEN TRUE
             ELSE dashboard.nows[3] <= nows[1]
          /\ dashboard' = Render(dashboard, dashboard.proposals, nows)
    /\ UNCHANGED <<coreVars, dialog>>

\* handleRefresh up to its await: the rendered Refresh button is disabled
\* while refreshing is true
HandleRefresh ==
    /\ dashboard.nows # <<>>
    /\ ~dashboard.refreshing
    /\ dashboard' = [dashboard EXCEPT !.refreshing = TRUE, !.pc = "r_refresh"]
    /\ UNCHANGED <<coreVars, dialog>>

\* await onRefresh() settles: the timer is set, or the rejection ends
\* handleRefresh
RefreshSettle ==
    /\ dashboard.pc = "r_refresh"
    /\ \E resolved \in BOOLEAN :
          dashboard' = [dashboard EXCEPT
                           !.pc = IF resolved THEN "r_timer" ELSE "idle"]
    /\ UNCHANGED <<coreVars, dialog>>

\* the timer set by handleRefresh fires: setRefreshing(false)
RefreshTimer ==
    /\ dashboard.pc = "r_timer"
    /\ dashboard' = [dashboard EXCEPT !.refreshing = FALSE, !.pc = "idle"]
    /\ UNCHANGED <<coreVars, dialog>>

(***************************************************************************)
(* Specifications.                                                         *)
(*   Spec         sessions in which each invocation is awaited before the  *)
(*                next one is started: connect() and the operations of     *)
(*                the VotingContract                                       *)
(*   SpecOverlap  two connect() invocations that may overlap               *)
(*   SpecAdapter  connect() one at a time, with direct calls of the        *)
(*                adapter's public methods in between                      *)
(*   SpecVoting   a connected session with castVote() invocations that    *)
(*                may overlap                                              *)
(*   SpecDialog   the handlers of CreateProposalDialog                     *)
(*   SpecDashboard  the renders and the refresh handler of VotingDashboard *)
(*   SpecPure     the adapter's pure functions (the simulated encryptor    *)
(*                and the codec) applied to bounded inputs                 *)
(***************************************************************************)
Next ==
    \/ ConnectStart(1)
    \/ ConnectAccounts(1)
    \/ ConnectNetwork(1)
    \/ ConnectSwitch(1)
    \/ ConnectAdd(1)
    \/ ConnectSigner(1)
    \/ InitNetwork(1)
    \/ InitFetch(1)
    \/ InitImport(1)
    \/ InitCreate(1)
    \/ ConnectTest(1)
    \/ CastVoteStart(1)
    \/ CastVoteEncrypted(1)
    \/ CastVoteWriteFhe(1)
    \/ CastVoteWrite(1)
    \/ CastVoteWait(1)
    \/ GetUserProfileStart(1)
    \/ ProfileAddress(1)
    \/ ProfileFlags(1)
    \/ ProfileCount(1)
    \/ ProfileScan(1)
    \/ AuthorizeVotersStart(1)
    \/ AuthorizeVotersWrite(1)
    \/ AuthorizeVotersWait(1)
    \/ CreateProposalStart(1)
    \/ CreateProposalWrite(1)
    \/ CreateProposalWait(1)
    \/ RevealResultsStart(1)
    \/ RevealResultsWrite(1)
    \/ RevealResultsWait(1)
    \/ AuthorizeVoterStart(1)
    \/ AuthorizeVoterWrite(1)
    \/ AuthorizeVoterWait(1)
    \/ GetActiveProposalsStart(1)
    \/ ProposalsList(1)
    \/ ProposalsAddress(1)
    \/ ProposalsScan(1)

Spec == Init /\ [][Next]_vars

NextOverlap ==
    \/ \E c \in Calls : ConnectStart(c)
    \/ \E c \in Calls : ConnectAccounts(c)
    \/ \E c \in Calls : ConnectNetwork(c)
    \/ \E c \in Calls : ConnectSwitch(c)
    \/ \E c \in Calls : ConnectAdd(c)
    \/ \E c \in Calls : ConnectSigner(c)
    \/ \E c \in Calls : InitNetwork(c)
    \/ \E c \in Calls : InitFetch(c)
    \/ \E c \in Calls : InitImport(c)
    \/ \E c \in Calls : InitCreate(c)
    \/ \E c \in Calls : ConnectTest(c)

SpecOverlap == Init /\ [][NextOverlap]_vars

NextAdapter ==
    \/ ConnectStart(1)
    \/ ConnectAccounts(1)
    \/ ConnectNetwork(1)
    \/ ConnectSwitch(1)
    \/ ConnectAdd(1)
    \/ ConnectSigner(1)
    \/ InitNetwork(1)
    \/ InitFetch(1)
    \/ InitImport(1)
    \/ InitCreate(1)
    \/ ConnectTest(1)
    \/ DirectEncrypt32
    \/ DirectEncryptVote
    \/ DirectToHexString(AdapterBytes)
    \/ DirectFromHexString(AdapterHex)
    \/ DirectCreateExternalInput(AdapterBytes)

SpecAdapter == Init /\ [][NextAdapter]_vars

\* sessions in which connect() has returned true: the adapter holds a
\* handle, or init() degraded, or init() threw and connect went on
InitVoting ==
    /\ contract = CONTRACT
    /\ provider = PROVIDER
    /\ signer = SIGNER
    /\ fhevmProvider = PROVIDER
    /\ \/ /\ instance = Handle(GatewayKey) /\ publicKey = GatewayKey
          /\ isReady = TRUE /\ lastInit = "ok" /\ isFHEVMEnabled = TRUE
       \/ /\ instance = NULL /\ publicKey = NoKey
          /\ isReady = FALSE /\ lastInit = "failed"
          /\ isFHEVMEnabled \in BOOLEAN
    /\ calls = [c \in Calls |-> IdleCall]
    /\ encResult = NoDirect
    /\ connectLog = "ok"
    /\ dialog = ClosedDialog
    /\ dashboard = IdleDashboard

\* the ballots cast in a connected session: option 0 of either proposal
VotingProposals == {0, 1}

NextVoting ==
    \/ \E c \in Calls, pid \in VotingProposals : CastVote(c, pid, 0)
    \/ \E c \in Calls : CastVoteEncrypted(c)
    \/ \E c \in Calls : CastVoteWriteFhe(c)
    \/ \E c \in Calls : CastVoteWrite(c)
    \/ \E c \in Calls : CastVoteWait(c)

SpecVoting == InitVoting /\ [][NextVoting]_vars

NextDialog ==
    \/ AddOption
    \/ RemoveOption
    \/ UpdateOption
    \/ Submit
    \/ SubmitSettle

SpecDialog == Init /\ [][NextDialog]_vars

\* the dashboard about to be rendered with some proposals
InitDashboard ==
    /\ contract = NULL
    /\ provider = NULL
    /\ signer = NULL
    /\ isFHEVMEnabled = FALSE
    /\ instance = NULL
    /\ fhevmProvider = NULL
    /\ isReady = FALSE
    /\ publicKey = NoKey
    /\ lastInit = "none"
    /\ calls = [c \in Calls |-> IdleCall]
    /\ encResult = NoDirect
    /\ connectLog = "none"
    /\ dialog = ClosedDialog
    /\ \E proposals \in ListedProposals :
          dashboard = [IdleDashboard EXCEPT !.proposals = proposals]

NextDashboard ==
    \/ VotingDashboardRender
    \/ HandleRefresh
    \/ RefreshSettle
    \/ RefreshTimer

SpecDashboard == InitDashboard /\ [][NextDashboard]_vars

\* the event loop runs every settled promise reaction and every due timer
SpecDashboardFair ==
    SpecDashboard /\ WF_vars(RefreshSettle) /\ WF_vars(RefreshTimer)

NextPure ==
    \/ ApplySimulateEncryption
    \/ ApplyRoundTrip
    \/ DirectToHexString(BytesInputs)
    \/ DirectFromHexString(HexInputs)
    \/ DirectCreateExternalInput(BytesInputs)

SpecPure == Init /\ [][NextPure]_vars

(***************************************************************************)
(* Properties.                                                             *)
(***************************************************************************)
VoteCalls == {c \in Calls : calls[c].op = "castVote"}
ConnectCalls == {c \in Calls : calls[c].op = "connect"}

HexDigitSet == {HexDigits[k] : k \in 1..Len(HexDigits)}

\* h is '0x' followed by exactly 2*n lowercase hex digits
IsWireHex(h, n) ==
    /\ Len(h) = 2 + 2 * n
    /\ h[1] = "0"
    /\ h[2] = "x"
    /\ \A k \in 3..Len(h) : h[k] \in HexDigitSet

\* C1: a castVote invocation that returned true has sent a remote write
\* that was accepted, has completed tx.wait() and has seen receipt status 1;
\* after a completed wait with any other status it returned false.
C1_TrueOnlyAfterFinality ==
    \A c \in VoteCalls :
        LET call == calls[c] IN
        call.pc = "done" =>
            /\ call.result = "true" =>
                  /\ call.writes # <<>>
                  /\ call.writes[Len(call.writes)].outcome = "sent"
                  /\ call.waited
                  /\ call.status = RECEIPT_SUCCESS
            /\ (call.waited /\ call.status # RECEIPT_SUCCESS) =>
                  call.result = "false"

C1_Witness ==
    \E c \in VoteCalls :
        /\ calls[c].pc = "done"
        /\ calls[c].result = "true"
        /\ calls[c].waited

\* C2: one castVote invocation issues at most one remote castVote write,
\* in either mode and whatever the outcome of the write.
C2_AtMostOneWrite ==
    \A c \in VoteCalls : Len(calls[c].writes) <= 1

\* C3: when a remote castVote write has thrown, the invocation ends by
\* raising that write's own error, and the fields of the VotingContract and
\* of the adapter are what they were when the invocation started.
C3_WriteErrorRaisedAsIs ==
    \A c \in VoteCalls :
        LET call == calls[c] IN
        \A i \in 1..Len(call.writes) :
            (call.pc = "done" /\ call.writes[i].outcome = "threw") =>
                /\ call.result = "throw"
                /\ call.error = call.writes[i].error
                /\ call.entry = Fields

\* C4: no remote write is issued while the encryptVote call of the
\* invocation is still pending, and a write that carries the adapter's
\* ciphertext is issued after encryptVote has resolved and carries exactly
\* what it resolved to.
C4_EncryptBeforeWrite ==
    \A c \in VoteCalls :
        LET call == calls[c] IN
        /\ call.pc = "v_encrypt" => call.writes = <<>>
        /\ \A i \in 1..Len(call.writes) :
              call.writes[i].src = "adapter" =>
                  /\ call.encoderCalls # <<>>
                  /\ call.pc # "v_encrypt"
                  /\ ~call.enc.threw
                  /\ call.writes[i].encryptedVote =
                         CreateExternalInput(call.enc.data)
                  /\ call.writes[i].proof = ToHexString(call.enc.proof)

C4_Witness ==
    \E c \in VoteCalls :
        /\ calls[c].writes # <<>>
        /\ calls[c].writes[1].src = "adapter"

ConnectStepErrors ==
    {"NoWallet", "AccountsRejected", "NetworkError", "SwitchFailed",
     "AddFailed", "SignerError", "ContractUnreachable"}

\* C6: once connect() has run fhevmClient.init, whatever init did (built a
\* handle, degraded, or threw), connect() goes on to the contract test and
\* returns true unless that test fails; connect() never raises an error
\* that comes from init.
C6_InitFailureNotSurfaced ==
    \A c \in ConnectCalls :
        LET call == calls[c] IN
        /\ call.initOutcome # "none" => call.pc \in {"c_test", "done"}
        /\ (call.initOutcome # "none" /\ call.pc = "done") =>
              \/ call.result = "true"
              \/ call.result = "throw" /\ call.error = "ContractUnreachable"
        /\ call.result = "throw" => call.error \in ConnectStepErrors

C6_Witness ==
    \E c \in ConnectCalls :
        /\ calls[c].initOutcome = "threw"
        /\ calls[c].pc = "done"
        /\ calls[c].result = "true"

InitPastFetch(call) == call.pc \in {"i_import", "i_create", "c_test", "done"}

\* C7 as stated: init does not throw once the provider has reported a chain
\* id other than Sepolia's; a failed key fetch does not make init throw or
\* stop, and createInstance is then given the fallback key.
C7_FetchFailureUsesFallbackKey ==
    \A c \in ConnectCalls :
        LET call == calls[c] IN
        /\ call.initChain \in ChainIds \ {SEPOLIA_CHAIN_ID} =>
              call.initOutcome # "threw"
        /\ call.fetchFailed =>
              /\ call.initOutcome # "threw"
              /\ InitPastFetch(call)
        /\ (call.fetchFailed /\ (call.pc = "i_create"
                                    \/ call.initOutcome = "ok")) =>
              call.key = FallbackKey

\* C7 as amended: init does not throw once the provider has reported a
\* chain id other than Sepolia's; a failed key fetch does not make init
\* throw or stop, and createInstance is then given the fallback key, unless an
\* overlapping init() has stored a fetched key in the shared publicKey field
\* in the meantime, in which case createInstance is given that key.
C7_FetchFailureFallbackUnlessRaced ==
    \A c \in ConnectCalls :
        LET call == calls[c] IN
        /\ call.initChain \in ChainIds \ {SEPOLIA_CHAIN_ID} =>
              call.initOutcome # "threw"
        /\ call.fetchFailed =>
              /\ call.initOutcome # "threw"
              /\ InitPastFetch(call)
        /\ (call.fetchFailed /\ (call.pc = "i_create"
                                    \/ call.initOutcome = "ok")) =>
              \/ call.key = FallbackKey
              \/ call.keyRaced /\ call.key = GatewayKey

C7_Witness ==
    \E c \in ConnectCalls :
        /\ calls[c].fetchFailed
        /\ calls[c].initChain # SEPOLIA_CHAIN_ID
        /\ calls[c].initOutcome = "ok"
        /\ calls[c].key = FallbackKey

\* C8: an encrypt32 call made while the adapter is Ready, in which the
\* backend throws, does not throw: it returns the simulated ciphertext of the
\* same value, and isInitialized() is still true after the call.
C8_BackendThrowFallsBack ==
    (encResult.op = "encrypt32" /\ encResult.ready /\ encResult.backendThrew)
        => /\ ~encResult.res.threw
           /\ encResult.res.data = SimulateEncryption(encResult.value).data
           /\ encResult.res.proof = SimulateEncryption(encResult.value).proof
           /\ encResult.readyAfter

C8_Witness ==
    /\ encResult.op = "encrypt32"
    /\ encResult.ready
    /\ encResult.backendThrew
    /\ encResult.res.backendInvoked

\* C9: an encrypt32 call made while the adapter is Degraded (no init has
\* completed, or the last one failed) returns the simulated ciphertext and
\* does not invoke a backend handle, a stale one included.
C9_DegradedNeverUsesBackend ==
    (encResult.op = "encrypt32" /\ ~encResult.ready)
        => /\ ~encResult.res.threw
           /\ ~encResult.res.backendInvoked
           /\ encResult.res.simulated
           /\ encResult.res.data = SimulateEncryption(encResult.value).data
           /\ encResult.res.proof = SimulateEncryption(encResult.value).proof

C9_Witness ==
    /\ encResult.op = "encrypt32"
    /\ ~encResult.ready
    /\ encResult.hadHandle
    /\ encResult.res.simulated

\* C10: isInitialized() is true only if a handle is stored and the most
\* recently completed init() built a handle; after an init() that failed it
\* is false, even with the handle of an earlier init still stored.
C10_InitializedIffLastInitOk ==
    /\ IsInitialized(isReady, instance) =>
          (instance # NULL /\ lastInit = "ok")
    /\ lastInit = "failed" => ~IsInitialized(isReady, instance)

C10_Witness ==
    /\ lastInit = "failed"
    /\ instance # NULL
    /\ ~IsInitialized(isReady, instance)

\* the step belongs to an init() running inside connect()
InitStep ==
    \E c \in Calls :
        /\ calls[c].pc \in {"i_network", "i_fetch", "i_import", "i_create"}
        /\ calls'[c] # calls[c]

AdapterMode == <<instance, isReady, publicKey>>

\* C11: the adapter's mode changes only through init(): a step of encrypt32,
\* encryptVote, toHexString, fromHexString or createExternalInput leaves
\* instance, isReady and publicKey as they were, whether it succeeds, falls
\* back to simulation or throws; every step that changes one of them is a
\* step of init(); and isInitialized() turns from false to true only in the
\* step of init() in which createInstance resolves.
C11_ModeChangesOnlyThroughInit ==
    [][ /\ (encResult' # encResult => AdapterMode' = AdapterMode)
        /\ (AdapterMode' # AdapterMode => InitStep)
        /\ (~IsInitialized(isReady, instance)
              /\ IsInitialized(isReady', instance')
              => \E c \in Calls : /\ calls[c].pc = "i_create"
                                  /\ calls'[c].initOutcome = "ok") ]_vars

C11_Witness ==
    /\ encResult.op = "fromHexString"
    /\ encResult.decoded.threw
    /\ lastInit = "failed"
    /\ instance # NULL
    /\ ~IsInitialized(isReady, instance)
    /\ publicKey = GatewayKey

\* C12: for every integer v the simulated encryptor returns data and proof of
\* exactly 32 bytes with data[i] = (v*7 + i*13) mod 256 and
\* proof[i] = (v*11 + i*17) mod 256 for i in 0..31, every byte in 0..255.
C12_SimulatedBlocks ==
    encResult.op = "simulateEncryption" =>
        LET v == encResult.value
            data == encResult.res.data
            proof == encResult.res.proof
        IN /\ Len(data) = 32 /\ Len(proof) = 32
           /\ \A i \in 0..31 :
                 /\ data[i + 1] = (v * 7 + i * 13) % 256
                 /\ proof[i + 1] = (v * 11 + i * 17) % 256
                 /\ data[i + 1] \in 0..255
                 /\ proof[i + 1] \in 0..255

C12_Witness ==
    /\ encResult.op = "simulateEncryption"
    /\ encResult.value < 0
    /\ encResult.res.data[1] = 256 - 7 * (-encResult.value)

\* C13 (as stated): the simulated encryptor is deterministic and separates
\* inputs: the same value gives identical data and proof, and two different
\* values of the 32-bit payload domain give different data.
C13_DifferentValuesDifferentData ==
    encResult.op = "simulateEncryption" =>
        /\ (encResult.value = encResult.other =>
               /\ encResult.res.data = encResult.res2.data
               /\ encResult.res.proof = encResult.res2.proof)
        /\ (/\ encResult.value # encResult.other
            /\ encResult.value >= 0
            /\ encResult.other >= 0
            => encResult.res.data # encResult.res2.data)

\* C13 (amended): the same value gives identical data and proof, and two
\* values give different data exactly when they differ modulo 256; values
\* that are congruent modulo 256 give identical data and proof.
C13_DataDependsOnValueMod256 ==
    encResult.op = "simulateEncryption" =>
        /\ (encResult.value = encResult.other =>
               /\ encResult.res.data = encResult.res2.data
               /\ encResult.res.proof = encResult.res2.proof)
        /\ (encResult.res.data # encResult.res2.data
               <=> encResult.value % 256 # encResult.other % 256)
        /\ (encResult.value % 256 = encResult.other % 256
               => encResult.res.proof = encResult.res2.proof)

C13_Witness ==
    /\ encResult.op = "simulateEncryption"
    /\ encResult.value >= 0
    /\ encResult.other = encResult.value + 256
    /\ encResult.res.data = encResult.res2.data

\* C14: encryptVote fails with an error for every vote other than 0 and 1 and
\* succeeds for 0 and 1; on the failing path neither the backend nor the
\* simulated encryptor is invoked, nothing is produced, and instance, isReady
\* and publicKey stay as they were.
C14_EncryptVoteRejectsNonBinary ==
    encResult.op = "encryptVote" =>
        /\ (encResult.value \notin {0, 1} =>
               /\ encResult.res.threw
               /\ ~encResult.res.backendInvoked
               /\ ~encResult.res.simulated
               /\ encResult.res.data = <<>>
               /\ encResult.res.proof = <<>>
               /\ encResult.fieldsKept
               /\ encResult.readyAfter = (encResult.ready /\ encResult.hadHandle))
        /\ (encResult.value \in {0, 1} =>
               /\ ~encResult.res.threw
               /\ encResult.res.simulated \/ encResult.res.backendInvoked)

C14_Witness ==
    /\ encResult.op = "encryptVote"
    /\ encResult.value \notin {0, 1}
    /\ encResult.res.threw
    /\ encResult.ready
    /\ encResult.hadHandle
    /\ IsInitialized(isReady, instance)

\* C15: for every byte sequence b, the empty one included,
\* fromHexString(toHexString(b)) returns b, and toHexString(b) is '0x'
\* followed by exactly 2 * length(b) lowercase hex digits.
C15_HexRoundTrip ==
    encResult.op = "roundTrip" =>
        /\ ~encResult.decoded.threw
        /\ encResult.decoded.bytes = encResult.bytes
        /\ IsWireHex(encResult.hex, Len(encResult.bytes))

C15_Witness ==
    /\ encResult.op = "roundTrip"
    /\ Len(encResult.bytes) >= 2
    /\ encResult.bytes[1] < 16
    /\ encResult.bytes[2] >= 16
    /\ encResult.decoded.bytes = encResult.bytes

\* C16: fromHexString rejects with an error every input that has an odd
\* number of hex digits after the '0x' prefix is stripped; it never returns
\* a byte sequence for such an input.
C16_OddHexRejected ==
    (encResult.op = "fromHexString" /\ Len(CleanHex(encResult.hex)) % 2 = 1)
        => encResult.decoded.threw

ProfileCalls == {c \in Calls : calls[c].op = "getUserProfile"}

\* ids 0..n-1 whose hasVoted check, as recorded in scan, returned true
VotedIds(scan) == {i \in 0..(Len(scan) - 1) : scan[i + 1] = "true"}

IsAscending(seq) ==
    \A j \in 1..Len(seq), k \in 1..Len(seq) : j < k => seq[j] < seq[k]

\* C17: in getUserProfile a failing hasVoted check is isolated: once the
\* scan has begun, every id in 0..proposalCount-1 is checked, the call
\* returns a profile without raising, and votedProposals holds exactly the
\* ids whose check returned true, in ascending order, the failed ones
\* excluded.
C17_FailedCheckIsolated ==
    \A c \in ProfileCalls :
        LET call == calls[c] IN
        /\ IsAscending(call.votedProposals)
        /\ {call.votedProposals[k] : k \in 1..Len(call.votedProposals)}
              = VotedIds(call.scan)
        /\ call.pc = "p_scan" => Len(call.scan) < call.proposalCount
        /\ (call.pc = "done" /\ call.scan # <<>>) =>
              /\ call.result = "profile"
              /\ Len(call.scan) = call.proposalCount
              /\ call.reads = 3 + call.proposalCount

C17_Witness ==
    \E c \in ProfileCalls :
        /\ calls[c].pc = "done"
        /\ calls[c].result = "profile"
        /\ calls[c].scan = <<"threw", "true">>
        /\ calls[c].votedProposals = <<1>>

\* C18: getUserProfile returns null, without any contract read, whenever the
\* signer or the contract is absent when it is called, and in no state does
\* it raise an error to its caller: every failure of a read ends in null.
C18_ProfileNeverRaises ==
    \A c \in ProfileCalls :
        LET call == calls[c] IN
        /\ call.result # "throw"
        /\ call.error # "none" => (call.pc = "done" /\ call.result = "null")
        /\ (call.entry[1] = NULL \/ call.entry[3] = NULL) =>
              /\ call.pc = "done"
              /\ call.result = "null"
              /\ call.reads = 0

C18_Witness ==
    \E c \in ProfileCalls :
        /\ calls[c].entry[1] = NULL
        /\ calls[c].result = "null"
        /\ calls[c].reads = 0
        /\ provider # NULL

AuthorizeCalls == {c \in Calls : calls[c].op = "authorizeVoters"}

\* C19: authorizeVoters(addresses), called with a bound contract, issues
\* exactly one remote write, which carries the whole address list, never one
\* write per address; it returns true exactly when that write's receipt
\* status is 1.
C19_OneBatchWrite ==
    \A c \in AuthorizeCalls :
        LET call == calls[c] IN
        /\ call.entry[1] # NULL =>
              /\ Len(call.writes) = 1
              /\ call.writes[1].method = "authorizeVoters"
              /\ call.writes[1].voters = call.voters
        /\ call.entry[1] = NULL => call.writes = <<>>
        /\ call.result = "true" <=>
              /\ call.pc = "done"
              /\ Len(call.writes) = 1
              /\ call.writes[1].outcome = "sent"
              /\ call.waited
              /\ call.status = 1

C19_Witness ==
    \E c \in AuthorizeCalls :
        /\ Len(calls[c].voters) = 2
        /\ calls[c].result = "true"
        /\ Len(calls[c].writes) = 1
        /\ calls[c].writes[1].voters = calls[c].voters

\* C20: on the encrypting path castVote encrypts the constant value 1
\* whatever optionIndex is, and every remote write it issues carries
\* proposalId and optionIndex unchanged as cleartext parameters, next to the
\* hex form of the ciphertext and of the proof the encryption returned.
C20_EncryptsConstantOne ==
    \A c \in VoteCalls :
        LET call == calls[c] IN
        call.branch = "fhe" =>
            /\ call.encoderCalls = <<1>>
            /\ \A k \in 1..Len(call.writes) :
                  /\ call.writes[k].method = "castVote"
                  /\ call.writes[k].proposalId = call.proposalId
                  /\ call.writes[k].optionIndex = call.optionIndex
                  /\ call.writes[k].src = "adapter" =>
                        /\ call.writes[k].encryptedVote
                              = <<"0", "x">> \o JoinHex(call.enc.data)
                        /\ call.writes[k].proof
                              = <<"0", "x">> \o JoinHex(call.enc.proof)

C20_Witness ==
    \E c \in VoteCalls :
        /\ calls[c].branch = "fhe"
        /\ calls[c].optionIndex = 0
        /\ calls[c].proposalId = MaxProposalId
        /\ calls[c].encoderCalls = <<1>>
        /\ calls[c].writes # <<>>
        /\ calls[c].writes[1].src = "adapter"
        /\ calls[c].writes[1].outcome = "sent"
        /\ calls[c].writes[1].optionIndex = 0

\* C21: castVote validates that proposalId and optionIndex are non-negative
\* integers before doing anything else: for a negative proposalId or
\* optionIndex no encryption is performed and no remote write is issued.
C21_NegativeArgumentsRejected ==
    \A c \in VoteCalls :
        (calls[c].proposalId < 0 \/ calls[c].optionIndex < 0) =>
            /\ calls[c].encoderCalls = <<>>
            /\ calls[c].writes = <<>>

\* a remote write of invocation c has been issued and has not settled
WriteInFlight(c) ==
    /\ calls[c].writes # <<>>
    /\ calls[c].writes[Len(calls[c].writes)].outcome = "pending"

C23_NoMutualExclusion ==
    [][\A c \in Calls :
          /\ (/\ Free(c)
               /\ calls'[c] # calls[c]
               /\ calls'[c].op = "castVote"
               /\ contract # NULL
               /\ VoteInFlight(c, calls'[c].proposalId))
              => /\ calls'[c].pc \in {"v_encrypt", "v_write"}
                 /\ calls'[c].pc = "v_write" =>
                       /\ Len(calls'[c].writes) = 1
                       /\ calls'[c].writes[1].outcome = "pending"
          /\ (calls'[c].op = "castVote"
               /\ calls'[c].pc \in {"v_write_fhe", "v_write", "v_wait"})
              => calls'[c].writes # <<>>]_vars

C23_Witness ==
    /\ calls[1].op = "castVote" /\ calls[2].op = "castVote"
    /\ calls[1].proposalId = calls[2].proposalId
    /\ WriteInFlight(1)
    /\ WriteInFlight(2)

\* number of entries of an option list that are neither empty nor
\* whitespace only
NonBlank(options) ==
    Cardinality({k \in 1..Len(options) : options[k] \notin {"", " "}})

\* C24: every createProposal call issued by CreateProposalDialog carries at
\* least 2 and at most 10 options, none of them blank; after any sequence of
\* addOption, removeOption, updateOption and submit the option list has
\* between 2 and 10 entries; a submit with fewer than 2 non-blank options
\* issues no call.
C24_OptionsBetweenTwoAndTen ==
    /\ Len(dialog.options) >= 2
    /\ Len(dialog.options) <= 10
    /\ dialog.submit.kind = "called" =>
          /\ Len(dialog.submit.sent) >= 2
          /\ Len(dialog.submit.sent) <= 10
          /\ \A k \in 1..Len(dialog.submit.sent) :
                dialog.submit.sent[k] \notin {"", " "}
          /\ Len(dialog.submit.sent) = NonBlank(dialog.options)
    /\ dialog.submit.kind = "rejected" => NonBlank(dialog.options) < 2
    /\ (dialog.isSubmitting /\ dialog.submit.kind = "none") =>
          dialog.pc = "awaiting"

C24_Witness ==
    /\ dialog.submit.kind = "called"
    /\ Len(dialog.options) = 10
    /\ Len(dialog.submit.sent) = 2
    /\ \E k \in 1..10 : dialog.options[k] = " "

\* C25: whenever no connect() is in progress, isFHEVM() returns true only
\* if fhevmClient.isInitialized() is true.
C25_FlagImpliesInitialized ==
    (\A c \in ConnectCalls : calls[c].pc = "done") =>
        (isFHEVMEnabled => IsInitialized(isReady, instance))

\* the operations that give up when no contract is bound
GuardedOps ==
    {"castVote", "createProposal", "revealResults", "authorizeVoter",
     "authorizeVoters", "getActiveProposals"}

\* C27: while the VotingContract has no contract, castVote, createProposal,
\* revealResults, authorizeVoter and authorizeVoters return false and
\* getActiveProposals returns an empty list, each without invoking
\* encryption, without issuing any remote call and without changing any
\* field of the VotingContract or of the adapter.
C27_NoContractNoEffect ==
    \A c \in Calls :
        LET call == calls[c] IN
        (call.op \in GuardedOps /\ call.entry[1] = NULL) =>
            /\ call.pc = "done"
            /\ call.result =
                  (IF call.op = "getActiveProposals" THEN "empty" ELSE "false")
            /\ call.error = "none"
            /\ call.encoderCalls = <<>>
            /\ call.writes = <<>>
            /\ call.reads = 0
            /\ Fields = call.entry

C27_Witness ==
    \E c \in Calls :
        /\ calls[c].op = "createProposal"
        /\ calls[c].entry[1] = NULL
        /\ calls[c].result = "false"
        /\ provider # NULL

\* the operations C26 names
SessionOps ==
    {"castVote", "createProposal", "authorizeVoter", "authorizeVoters"}

\* C26: a connect() that throws leaves no usable session: while connect()
\* has thrown and no connect() has returned true, getUserProfile() returns
\* null and castVote, createProposal and the authorize operations return
\* false without issuing a remote call.
C26_FailedConnectLeavesNoSession ==
    connectLog = "failed" =>
        \A c \in Calls :
            LET call == calls[c] IN
            /\ call.op = "getUserProfile" =>
                  (call.pc = "done" /\ call.result = "null" /\ call.reads = 0)
            /\ call.op \in SessionOps =>
                  (call.pc = "done" /\ call.result = "false"
                   /\ call.writes = <<>>)

\* C28: during connect() on a chain other than Sepolia,
\* wallet_addEthereumChain is awaited only after wallet_switchEthereumChain
\* failed with code 4902; when the switch fails with another code, or the
\* add fails, connect() throws and this call has assigned neither the signer
\* nor the contract.
C28_AddOnlyAfterChainNotAdded ==
    \A c \in Calls :
        LET call == calls[c] IN
        call.op = "connect" =>
            /\ call.pc = "c_add" => call.switchError = ERR_CHAIN_NOT_ADDED
            /\ call.error \in {"SwitchFailed", "AddFailed"} =>
                  /\ call.pc = "done"
                  /\ call.result = "throw"
                  /\ ~call.bound

C28_Witness ==
    \E c \in Calls :
        /\ calls[c].op = "connect"
        /\ calls[c].error = "AddFailed"
        /\ calls[c].result = "throw"
        /\ contract = NULL

\* the lists of the latest render that show the proposal at position i
ListsShowing(i) ==
    {name \in {"active", "pending", "completed"} :
        \/ name = "active" /\ i \in dashboard.activeProposals
        \/ name = "pending" /\ i \in dashboard.pendingProposals
        \/ name = "completed" /\ i \in dashboard.completedProposals}

\* the three filters of the latest render read the same time
FixedTime ==
    /\ dashboard.nows # <<>>
    /\ dashboard.nows[1] = dashboard.nows[2]
    /\ dashboard.nows[2] = dashboard.nows[3]

\* C29 as stated: for a fixed current time every proposal with active = true
\* appears in exactly one of the active, pending and completed lists, and a
\* proposal with active = false appears in none.
C29_ListsPartitionActive ==
    FixedTime =>
        \A i \in 1..Len(dashboard.proposals) :
            Cardinality(ListsShowing(i)) =
                (IF dashboard.proposals[i].active THEN 1 ELSE 0)

\* C29 amended: for a fixed current time every proposal with active = true
\* appears in at least one list, and in exactly one when its startTime is not
\* after its endTime: active for startTime <= now <= endTime, pending for
\* now < startTime, completed for now > endTime; a proposal with
\* active = false appears in none.
C29_ListsPartitionWellFormed ==
    FixedTime =>
        \A i \in 1..Len(dashboard.proposals) :
            LET p == dashboard.proposals[i]
                now == dashboard.nows[1]
            IN /\ ~p.active => ListsShowing(i) = {}
               /\ p.active => ListsShowing(i) # {}
               /\ (p.active /\ p.startTime <= p.endTime) =>
                     ListsShowing(i) =
                        (IF now < p.startTime THEN {"pending"}
                         ELSE IF now > p.endTime THEN {"completed"}
                         ELSE {"active"})

C29_Witness ==
    /\ FixedTime
    /\ \E i \in 1..Len(dashboard.proposals) :
          /\ dashboard.proposals[i].active
          /\ dashboard.proposals[i].startTime = dashboard.nows[1]
          /\ dashboard.proposals[i].startTime < dashboard.proposals[i].endTime
          /\ ListsShowing(i) = {"active"}

\* C30: after handleRefresh is triggered the refreshing flag eventually
\* returns to false, whether onRefresh resolves or rejects.
C30_RefreshingEventuallyFalse ==
    dashboard.refreshing ~> ~dashboard.refreshing

====
